---- MODULE Spec2Model ----
(***************************************************************************)
(* Model of the PancakeSwap volume booster: the polling loop boost_volume  *)
(* of main.py driving Trader.buy / Trader.sell of trader.py against a      *)
(* chain whose answers (balances, gas estimates, gas price, receipts, RPC  *)
(* errors) are chosen nondeterministically.                                *)
(***************************************************************************)
EXTENDS Integers, Sequences, FiniteSets, TLC

\* ---------------------------------------------------------------- bounds
NumWallets == 2
MaxCycles == 3
MaxCalls == 2
MaxGasPrice == 2
MaxTokens == 1
\* Trader.max_approval_int is 16^64 - 1 and max_approval_check_int 16^49 - 1;
\* the model keeps their shape (all hex digits f, the check value shorter)
\* with fewer digits, the integers of the model checker being 32 bits wide.
ApprovalDigits == 2
CheckDigits == 1

\* the accounts of keys.txt, by their place in the list; 0 stands for no wallet
Wallets == 1..NumWallets
None == [none |-> TRUE]

\* ------------------------------------------------------ program constants
max_approval_int == 16^ApprovalDigits - 1
max_approval_check_int == 16^CheckDigits - 1
INTERVAL == 60

\* --------------------------------------------------------- pure functions
\* estimate_gas: the node's estimate plus a buffer of 20000 units
estimate_gas(estimated) == estimated + 20000

_calc_tx_fee(gasLimit, gasPrice) == gasLimit * gasPrice

\* the last line of can_buy, reached with tx_fee known
can_buy_ge(b, tx_fee) == b - (tx_fee * 6) >= 0
can_buy(b, tx_fee) == b - (tx_fee * 6) > 0

\* _is_approved, on the allowance the token contract reports
is_approved_max(amount) == amount >= max_approval_int
_is_approved(amount) == amount >= max_approval_check_int

\* _get_tx_params, the value of the transaction: "ok" is FALSE where the
\* code raises 'BNB balance is insufficient for [BUY]'
tx_value_once(v, gasLimit, gasPrice) ==
    IF v > 0
    THEN LET tx_fee == _calc_tx_fee(gasLimit, gasPrice)
         IN  [ok |-> can_buy(v, tx_fee), value |-> v - tx_fee]
    ELSE [ok |-> TRUE, value |-> v]
tx_value(v, gasLimit, gasPrice) ==
    IF v > 0
    THEN LET tx_fee == _calc_tx_fee(gasLimit, gasPrice)
         IN  [ok |-> can_buy(v, tx_fee), value |-> v - tx_fee * 6]
    ELSE [ok |-> TRUE, value |-> v]

\* ------------------------------------------------------------ environment
\* what estimateGas answers for the call of a function: the swap of native
\* coin for tokens (buy), the token's approve, the swap of tokens (sell)
EstimateGas(f) ==
    CASE f = "buy" -> 130000
      [] f = "approve" -> 45000
      [] OTHER -> 160000
\* what gas_price may answer: at least 1 wei, the chain's validators accepting
\* no transaction below their minimum price
GasPrices == 1..MaxGasPrice
\* the fees of a buy: what can_buy and _get_tx_params compare the balance with
Fees == {_calc_tx_fee(estimate_gas(EstimateGas("buy")), p) : p \in GasPrices}
\* native balances: none, and at and one above every threshold 6 * fee
BnbValues == {0} \cup {6 * f + d : f \in Fees, d \in 0..1}
AllowanceValues == {0, max_approval_check_int - 1, max_approval_check_int}

VARIABLES
    bnbBal, tokBal, allowance,       \* the chain: per wallet
    lpc, idx, cycles,                \* boost_volume: position, account, cycles done
    bnb, tokens_amount, can, slept,  \* boost_volume: locals, the can_buy call, last sleep
    result,                          \* what the last buy / sell returned
    tpc, op, fn, wallet, arg,        \* Trader: position, call, transaction, arguments
    value, gas_limit, gas_price, status,          \* Trader: tx_params, receipt
    trace,                           \* the steps of the current buy / sell call
    lastTx,                          \* the last transaction broadcast
    lastNote,                        \* the result the last notification told
    rpcRaised,                       \* some chain or messaging call has raised
    cycTx, cycNotes,                 \* broadcasts, notifications of this wallet cycle
    apprDone, apprOk,                \* per wallet: an approval was awaited, was mined with status 1
    apprAgain, apprAfterOk,          \* per wallet: an approval was sent after apprDone, after apprOk
    calls                            \* direct calls made (SpecApi)

chainVars == <<bnbBal, tokBal, allowance>>
loopVars == <<lpc, idx, cycles, bnb, tokens_amount, can>>
callVars == <<op, fn, wallet, arg>>
txVars == <<value, gas_limit, gas_price, status>>
noteVars == <<lastNote, cycNotes>>
apprVars == <<apprDone, apprOk, apprAgain, apprAfterOk>>
vars == <<bnbBal, tokBal, allowance, lpc, idx, cycles, bnb, tokens_amount, can, slept,
          result, tpc, op, fn, wallet, arg, value, gas_limit, gas_price, status,
          trace, lastTx, lastNote, rpcRaised, cycTx, cycNotes,
          apprDone, apprOk, apprAgain, apprAfterOk, calls>>

NoTx == [kind |-> "none", wallet |-> 0, value |-> 0, fee |-> 0,
         balance |-> 0, allow |-> 0]
NoCan == [called |-> FALSE, est |-> 0, price |-> 0, ret |-> FALSE]

InitCommon ==
    /\ \E b \in BnbValues : bnbBal = [w \in Wallets |-> b]
    /\ \E t \in 0..MaxTokens : tokBal = [w \in Wallets |-> t]
    /\ \E a \in AllowanceValues : allowance = [w \in Wallets |-> a]
    /\ idx = 1 /\ cycles = 0
    /\ bnb = 0 /\ tokens_amount = 0 /\ can = NoCan /\ slept = 0
    /\ result = None
    /\ tpc = "idle" /\ op = "none" /\ fn = "none" /\ wallet = 0 /\ arg = 0
    /\ value = 0 /\ gas_limit = 0 /\ gas_price = 0 /\ status = 0
    /\ trace = <<>> /\ lastTx = NoTx
    /\ lastNote = None /\ rpcRaised = FALSE
    /\ cycTx = 0 /\ cycNotes = 0
    /\ apprDone = [w \in Wallets |-> FALSE]
    /\ apprAgain = [w \in Wallets |-> FALSE]
    /\ apprOk = [w \in Wallets |-> FALSE]
    /\ apprAfterOk = [w \in Wallets |-> FALSE]
    /\ calls = 0

\* main.py: init() has run, boost_volume is about to read the first account
Init == InitCommon /\ lpc = "get_bnb"

\* ------------------------------------------------------------ Trader steps
\* a step of the approval transaction is logged with the prefix APPROVE_
Ev(e) == IF fn = "approve" THEN "APPROVE_" \o e ELSE e

\* the step went through: on to the next one
Ok(next) ==
    /\ tpc' = next
    /\ UNCHANGED <<result, rpcRaised>>

\* except Exception as e: logger.exception(...)  -- the call returns None
\* and its locals are gone
Caught(rpc) ==
    /\ tpc' = "done"
    /\ result' = None
    /\ rpcRaised' = (rpcRaised \/ rpc)
    /\ value' = 0 /\ gas_limit' = 0 /\ gas_price' = 0 /\ status' = 0

\* entering buy(wallet, private_key, bnb_amount)
CallBuy(w, amount) ==
    /\ tpc' = "buy_balance_before"
    /\ op' = "buy" /\ fn' = "buy" /\ wallet' = w /\ arg' = amount
    /\ trace' = <<>>
    /\ result' = None

\* entering sell(wallet, private_key, amount)
CallSell(w, amount) ==
    /\ tpc' = "sell_amount"
    /\ op' = "sell" /\ fn' = "sell" /\ wallet' = w /\ arg' = amount
    /\ trace' = <<>>
    /\ result' = None

\* buy: balance_before = self.get_token_balance(wallet, formatted=True)
BuyBalanceBefore ==
    /\ tpc = "buy_balance_before"
    /\ trace' = Append(trace, "GET_TOKEN_BALANCE")
    /\ \/ Ok("tx_estimate") /\ UNCHANGED txVars
       \/ Caught(TRUE)
    /\ UNCHANGED <<chainVars, loopVars, slept, callVars, lastTx, noteVars, cycTx,
                   apprVars, calls>>

\* _get_tx_params: gas_limit = self.estimate_gas(function, address_from, value)
TxEstimate ==
    /\ tpc = "tx_estimate"
    /\ trace' = Append(trace, Ev("ESTIMATE_GAS"))
    /\ \/ /\ gas_limit' = estimate_gas(EstimateGas(fn))
          /\ Ok("tx_gas_price")
          /\ UNCHANGED <<value, gas_price, status>>
       \/ Caught(TRUE)
    /\ UNCHANGED <<chainVars, loopVars, slept, callVars, lastTx, noteVars, cycTx,
                   apprVars, calls>>

\* _get_tx_params: gas_price = self.web3.eth.gas_price
TxGasPrice ==
    /\ tpc = "tx_gas_price"
    /\ trace' = Append(trace, Ev("GAS_PRICE"))
    /\ \/ /\ \E p \in GasPrices : gas_price' = p
          /\ Ok("tx_check")
          /\ UNCHANGED <<value, gas_limit, status>>
       \/ Caught(TRUE)
    /\ UNCHANGED <<chainVars, loopVars, slept, callVars, lastTx, noteVars, cycTx,
                   apprVars, calls>>

\* the value _get_tx_params is called with: bnb_amount by buy, Wei(0) otherwise
ValueArg == IF fn = "buy" THEN arg ELSE 0

\* _get_tx_params: if value > 0: ... can_buy ... raise / value -= tx_fee * 6
TxCheck ==
    /\ tpc = "tx_check"
    /\ LET r == tx_value(ValueArg, gas_limit, gas_price)
       IN  /\ trace' = IF ValueArg > 0 THEN Append(trace, "CHECK_BALANCE") ELSE trace
           /\ IF r.ok
              THEN /\ value' = r.value
                   /\ Ok("tx_nonce")
                   /\ UNCHANGED <<gas_limit, gas_price, status>>
              ELSE Caught(FALSE)
    /\ UNCHANGED <<chainVars, loopVars, slept, callVars, lastTx, noteVars, cycTx,
                   apprVars, calls>>

\* _get_tx_params: "nonce": self.web3.eth.getTransactionCount(address_from)
TxNonce ==
    /\ tpc = "tx_nonce"
    /\ trace' = Append(trace, Ev("GET_NONCE"))
    /\ \/ Ok("build") /\ UNCHANGED txVars
       \/ Caught(TRUE)
    /\ UNCHANGED <<chainVars, loopVars, slept, callVars, lastTx, noteVars, cycTx,
                   apprVars, calls>>

\* _build_and_send_tx: transaction = function.buildTransaction(tx_params); the
\* fields tx_params leaves out (the chain id) are asked of the node
Build ==
    /\ tpc = "build"
    /\ trace' = Append(trace, Ev("BUILD"))
    /\ \/ Ok("sign") /\ UNCHANGED txVars
       \/ Caught(TRUE)
    /\ UNCHANGED <<chainVars, loopVars, slept, callVars, lastTx, noteVars,
                   cycTx, apprVars, calls>>

\* _build_and_send_tx: signed_txn = self.web3.eth.account.sign_transaction(...)
Sign ==
    /\ tpc = "sign"
    /\ trace' = Append(trace, Ev("SIGN"))
    /\ Ok("send")
    /\ UNCHANGED <<chainVars, loopVars, slept, callVars, txVars, lastTx, noteVars,
                   cycTx, apprVars, calls>>

\* what follows the broadcast: approve, buy and sell all wait for the receipt
AfterSend_forget(f) == IF f = "approve" THEN "approve_sleep" ELSE "wait"
AfterSend(f) == "wait"

\* _build_and_send_tx: return self.web3.eth.sendRawTransaction(...); the node
\* refuses a transaction the sender cannot pay for (value + gas * gasPrice)
Send ==
    /\ tpc = "send"
    /\ trace' = Append(trace, Ev("BROADCAST"))
    /\ \/ /\ bnbBal[wallet] >= value + _calc_tx_fee(gas_limit, gas_price)
          /\ lastTx' = [kind |-> fn, wallet |-> wallet, value |-> value,
                        fee |-> _calc_tx_fee(gas_limit, gas_price),
                        balance |-> bnbBal[wallet], allow |-> allowance[wallet]]
          /\ cycTx' = cycTx + 1
          /\ IF fn = "approve"
             THEN /\ apprAgain' = [apprAgain EXCEPT ![wallet] = @ \/ apprDone[wallet]]
                  /\ apprAfterOk' = [apprAfterOk EXCEPT ![wallet] = @ \/ apprOk[wallet]]
             ELSE UNCHANGED <<apprAgain, apprAfterOk>>
          /\ Ok(AfterSend(fn))
          /\ UNCHANGED txVars
       \/ Caught(TRUE) /\ UNCHANGED <<lastTx, cycTx, apprAgain, apprAfterOk>>
    /\ UNCHANGED <<chainVars, loopVars, slept, callVars, noteVars, apprDone, apprOk, calls>>

\* what the router pays out: native coin for `amount` tokens sold, tokens for a buy
SwapOut(amount) == amount * 50000
TokensOut(v) == IF v > 0 THEN 1 ELSE 0

\* the chain after the transaction in flight was mined with receipt status s:
\* the fee is paid in either case, the transfer happens only with status 1
Mined(s) ==
    LET fee == _calc_tx_fee(gas_limit, gas_price)
        w == wallet
    IN  CASE fn = "buy" ->
               /\ bnbBal' = [bnbBal EXCEPT ![w] = @ - fee - (IF s = 1 THEN value ELSE 0)]
               /\ tokBal' = [tokBal EXCEPT ![w] = @ + (IF s = 1 THEN TokensOut(value) ELSE 0)]
               /\ UNCHANGED <<allowance, apprDone, apprOk>>
          [] fn = "approve" ->
               /\ bnbBal' = [bnbBal EXCEPT ![w] = @ - fee]
               /\ allowance' = [allowance EXCEPT ![w] = IF s = 1 THEN max_approval_int ELSE @]
               /\ apprDone' = [apprDone EXCEPT ![w] = TRUE]
               /\ apprOk' = [apprOk EXCEPT ![w] = @ \/ s = 1]
               /\ UNCHANGED tokBal
          [] OTHER ->
               /\ s = 1 => (allowance[w] >= arg /\ tokBal[w] >= arg)
               /\ bnbBal' = [bnbBal EXCEPT ![w] = @ - fee + (IF s = 1 THEN SwapOut(arg) ELSE 0)]
               /\ tokBal' = [tokBal EXCEPT ![w] = @ - (IF s = 1 THEN arg ELSE 0)]
               /\ allowance' = [allowance EXCEPT ![w] = IF s = 1 THEN @ - arg ELSE @]
               /\ UNCHANGED <<apprDone, apprOk>>

\* buy / sell: receipt = self.web3.eth.wait_for_transaction_receipt(tx_hash)
\* approve:    receipt = self.web3.eth.waitForTransactionReceipt(tx, timeout=6000)
Wait ==
    /\ tpc = "wait"
    /\ trace' = Append(trace, Ev("AWAIT_RECEIPT"))
    /\ \/ /\ \E s \in {0, 1} : status' = s /\ Mined(s)
          /\ Ok(IF fn = "approve" THEN "approve_sleep" ELSE "after_token")
          /\ UNCHANGED <<value, gas_limit, gas_price>>
       \/ Caught(TRUE) /\ UNCHANGED <<chainVars, apprDone, apprOk>>
    /\ UNCHANGED <<loopVars, slept, callVars, lastTx, noteVars, cycTx, apprAgain,
                   apprAfterOk, calls>>

\* approve: logger.info(f'Approved: {receipt}'); time.sleep(1)  -- back in sell,
\* the locals of approve and of _build_and_send_tx are gone
ApproveSleep ==
    /\ tpc = "approve_sleep"
    /\ slept' = 1
    /\ fn' = "sell"
    /\ value' = 0 /\ gas_limit' = 0 /\ gas_price' = 0 /\ status' = 0
    /\ Ok("sell_bnb_before")
    /\ UNCHANGED <<chainVars, loopVars, op, wallet, arg, trace, lastTx, noteVars,
                   cycTx, apprVars, calls>>

\* buy / sell: after_balance = self.get_token_balance(wallet, formatted=True)
AfterToken ==
    /\ tpc = "after_token"
    /\ trace' = Append(trace, "GET_TOKEN_BALANCE")
    /\ \/ Ok("after_bnb") /\ UNCHANGED txVars
       \/ Caught(TRUE)
    /\ UNCHANGED <<chainVars, loopVars, slept, callVars, lastTx, noteVars, cycTx,
                   apprVars, calls>>

\* buy / sell: after_bnb_balance = self.get_bnb_balance(wallet, in_ether=True)
AfterBnb ==
    /\ tpc = "after_bnb"
    /\ trace' = Append(trace, "GET_BNB_BALANCE")
    /\ \/ Ok("report") /\ UNCHANGED txVars
       \/ Caught(TRUE)
    /\ UNCHANGED <<chainVars, loopVars, slept, callVars, lastTx, noteVars, cycTx,
                   apprVars, calls>>

\* buy / sell: if receipt.status == 1: log success, else: log error;
\* return {'tx': ..., 'status': receipt.status, ...} in both cases
Report ==
    /\ tpc = "report"
    /\ trace' = Append(trace, "REPORT")
    /\ result' = [status |-> status]
    /\ tpc' = "done"
    /\ value' = 0 /\ gas_limit' = 0 /\ gas_price' = 0 /\ status' = 0
    /\ UNCHANGED <<chainVars, loopVars, slept, callVars, lastTx, noteVars, rpcRaised,
                   cycTx, apprVars, calls>>

\* sell: if amount <= 0: raise Exception('Invalid token amount ...')
invalid_amount_lt(amount) == amount < 0
invalid_amount(amount) == amount <= 0

SellAmount ==
    /\ tpc = "sell_amount"
    /\ IF invalid_amount(arg)
       THEN Caught(FALSE)
       ELSE Ok("sell_is_approved") /\ UNCHANGED txVars
    /\ UNCHANGED <<chainVars, loopVars, slept, callVars, trace, lastTx, noteVars,
                   cycTx, apprVars, calls>>

\* sell: if not self._is_approved(wallet): self.approve(wallet, private_key)
SellIsApproved ==
    /\ tpc = "sell_is_approved"
    /\ trace' = Append(trace, "CHECK_ALLOWANCE")
    /\ \/ /\ IF _is_approved(allowance[wallet])
             THEN Ok("sell_bnb_before") /\ UNCHANGED fn
             ELSE Ok("tx_estimate") /\ fn' = "approve"
          /\ UNCHANGED txVars
       \/ Caught(TRUE) /\ UNCHANGED fn
    /\ UNCHANGED <<chainVars, loopVars, slept, op, wallet, arg, lastTx, noteVars,
                   cycTx, apprVars, calls>>

\* sell: before_bnb_balance = self.get_bnb_balance(wallet, in_ether=True)
SellBnbBefore ==
    /\ tpc = "sell_bnb_before"
    /\ trace' = Append(trace, "GET_BNB_BALANCE")
    /\ \/ Ok("tx_estimate") /\ UNCHANGED txVars
       \/ Caught(TRUE)
    /\ UNCHANGED <<chainVars, loopVars, slept, callVars, lastTx, noteVars, cycTx,
                   apprVars, calls>>

TraderStep ==
    \/ BuyBalanceBefore \/ TxEstimate \/ TxGasPrice \/ TxCheck \/ TxNonce
    \/ Build \/ Sign \/ Send \/ Wait \/ ApproveSleep
    \/ AfterToken \/ AfterBnb \/ Report
    \/ SellAmount \/ SellIsApproved \/ SellBnbBefore

\* ------------------------------------------------------------ boost_volume
\* the task ends with an exception nothing catches
Crash(rpc) ==
    /\ lpc' = "crashed"
    /\ rpcRaised' = (rpcRaised \/ rpc)

\* the account after accounts[i]: the for loop, restarted by `while True`
NextAccount_skip(i) == ((i + 1) % NumWallets) + 1
NextAccount(i) == (i % NumWallets) + 1

\* for account in accounts: address, key = account
\* bnb = trader.get_bnb_balance(address)
LoopGetBnb ==
    /\ lpc = "get_bnb"
    /\ cycles < MaxCycles
    /\ \/ /\ bnb' = bnbBal[idx]
          /\ lpc' = "can_buy"
          /\ UNCHANGED rpcRaised
       \/ Crash(TRUE) /\ UNCHANGED bnb
    /\ slept' = 0
    /\ UNCHANGED <<chainVars, idx, cycles, tokens_amount, can, result, tpc, callVars,
                   txVars, trace, lastTx, noteVars, cycTx, apprVars, calls>>

\* if bnb > 0 and trader.can_buy(bnb, wallet=address): result = trader.buy(address, key, bnb)
\* can_buy: tx_fee is None and wallet is given, so the fee is estimated
LoopCanBuy ==
    /\ lpc = "can_buy"
    /\ \/ /\ bnb <= 0
          /\ lpc' = "get_tokens"
          /\ UNCHANGED <<can, result, tpc, callVars, trace, rpcRaised>>
       \/ /\ bnb > 0
          /\ \E p \in GasPrices :
                LET e == EstimateGas("buy")
                    ret == can_buy(bnb, _calc_tx_fee(estimate_gas(e), p))
                IN  /\ can' = [called |-> TRUE, est |-> e, price |-> p, ret |-> ret]
                    /\ IF ret
                       THEN lpc' = "buy" /\ CallBuy(idx, bnb)
                       ELSE /\ lpc' = "get_tokens"
                            /\ UNCHANGED <<result, tpc, callVars, trace>>
          /\ UNCHANGED rpcRaised
       \/ /\ bnb > 0
          /\ Crash(TRUE)
          /\ UNCHANGED <<can, result, tpc, callVars, trace>>
    /\ UNCHANGED <<chainVars, idx, cycles, bnb, tokens_amount, slept, txVars, lastTx,
                   noteVars, cycTx, apprVars, calls>>

\* await bot.send_message(channel_id, f'... {result["amount"]} ...'): subscripting
\* None raises TypeError; the status of the result is not looked at
Notify(next) ==
    \/ /\ result = None
       /\ Crash(FALSE)
       /\ UNCHANGED <<lastNote, cycNotes>>
    \/ /\ result # None
       /\ lastNote' = [op |-> op, status |-> result.status]
       /\ cycNotes' = cycNotes + 1
       /\ lpc' = next
       /\ UNCHANGED rpcRaised
    \/ /\ result # None
       /\ Crash(TRUE)
       /\ UNCHANGED <<lastNote, cycNotes>>

\* result = trader.buy(...) has returned; await bot.send_message(... 'Bought ...')
LoopNotifyBuy ==
    /\ lpc = "buy" /\ tpc = "done"
    /\ Notify("sleep10")
    /\ tpc' = "idle"
    /\ UNCHANGED <<chainVars, idx, cycles, bnb, tokens_amount, can, slept, result,
                   callVars, txVars, trace, lastTx, cycTx, apprVars, calls>>

\* await asyncio.sleep(10)
LoopSleep10 ==
    /\ lpc = "sleep10"
    /\ slept' = 10
    /\ lpc' = "get_tokens"
    /\ UNCHANGED <<chainVars, idx, cycles, bnb, tokens_amount, can, result, tpc,
                   callVars, txVars, trace, lastTx, noteVars, rpcRaised, cycTx,
                   apprVars, calls>>

\* tokens_amount = trader.get_token_balance(address)
\* if tokens_amount > 0: result = trader.sell(address, key, tokens_amount)
LoopGetTokens ==
    /\ lpc = "get_tokens"
    /\ \/ /\ tokens_amount' = tokBal[idx]
          /\ IF tokBal[idx] > 0
             THEN lpc' = "sell" /\ CallSell(idx, tokBal[idx])
             ELSE /\ lpc' = "sleep"
                  /\ UNCHANGED <<result, tpc, callVars, trace>>
          /\ UNCHANGED rpcRaised
       \/ /\ Crash(TRUE)
          /\ UNCHANGED <<tokens_amount, result, tpc, callVars, trace>>
    /\ UNCHANGED <<chainVars, idx, cycles, bnb, can, slept, txVars, lastTx, noteVars,
                   cycTx, apprVars, calls>>

\* result = trader.sell(...) has returned; await bot.send_message(... 'Sold ...')
LoopNotifySell ==
    /\ lpc = "sell" /\ tpc = "done"
    /\ Notify("sleep")
    /\ tpc' = "idle"
    /\ UNCHANGED <<chainVars, idx, cycles, bnb, tokens_amount, can, slept, result,
                   callVars, txVars, trace, lastTx, cycTx, apprVars, calls>>

\* await asyncio.sleep(INTERVAL), then the next account; what the iteration
\* held (its locals, the record of what it sent) ends with it
LoopSleep ==
    /\ lpc = "sleep"
    /\ slept' = INTERVAL
    /\ idx' = NextAccount(idx)
    /\ cycles' = cycles + 1
    /\ lpc' = "get_bnb"
    /\ bnb' = 0 /\ tokens_amount' = 0 /\ can' = NoCan /\ result' = None
    /\ op' = "none" /\ fn' = "none" /\ wallet' = 0 /\ arg' = 0
    /\ trace' = <<>> /\ lastTx' = NoTx /\ lastNote' = None
    /\ cycTx' = 0 /\ cycNotes' = 0
    /\ UNCHANGED <<chainVars, tpc, txVars, rpcRaised, apprVars, calls>>

boost_volume ==
    \/ LoopGetBnb \/ LoopCanBuy \/ LoopNotifyBuy \/ LoopSleep10
    \/ LoopGetTokens \/ LoopNotifySell \/ LoopSleep

Next == boost_volume \/ TraderStep

Spec == Init /\ [][Next]_vars

\* ------------------------------------------------- Trader called directly
\* buy and sell called with any amount, the wallet's balance included
InitApi == InitCommon /\ lpc = "api"

ApiBuy ==
    /\ lpc = "api" /\ tpc = "idle" /\ calls < MaxCalls
    /\ \E w \in Wallets : \E amount \in {0, bnbBal[w]} : CallBuy(w, amount)
    /\ lastTx' = NoTx /\ cycTx' = 0
    /\ UNCHANGED <<chainVars, loopVars, slept, txVars, noteVars, rpcRaised,
                   apprVars, calls>>

ApiSell ==
    /\ lpc = "api" /\ tpc = "idle" /\ calls < MaxCalls
    /\ \E w \in Wallets : \E amount \in {-1, 0, 1, tokBal[w]} : CallSell(w, amount)
    /\ lastTx' = NoTx /\ cycTx' = 0
    /\ UNCHANGED <<chainVars, loopVars, slept, txVars, noteVars, rpcRaised,
                   apprVars, calls>>

ApiReturn ==
    /\ lpc = "api" /\ tpc = "done"
    /\ tpc' = "idle"
    /\ calls' = calls + 1
    /\ UNCHANGED <<chainVars, loopVars, slept, result, callVars, txVars, trace, lastTx,
                   noteVars, rpcRaised, cycTx, apprVars>>

NextApi == ApiBuy \/ ApiSell \/ ApiReturn \/ TraderStep

SpecApi == InitApi /\ [][NextApi]_vars

\* ------------------------------------------------------------------ claims
Has(e) == \E i \in 1..Len(trace) : trace[i] = e

\* every step b of the current call comes after some step of the set A
Before(A, b) ==
    \A j \in 1..Len(trace) : trace[j] = b => \E i \in 1..(j - 1) : trace[i] \in A

\* the fee can_buy computed in this wallet cycle, spelled out
CanFee == (can.est + 20000) * can.price

\* C1: a buy or sell that failed (returned no result) does not end the polling
\* loop: from the state where the call has returned None, the loop goes on.
C1_FailedCallKeepsLoopRunning ==
    [][(lpc \in {"buy", "sell"} /\ tpc = "done" /\ result = None) => lpc' # "crashed"]_vars

\* C2: can_buy is TRUE exactly when the balance is strictly above 6 * fee, for
\* every balance at or next to a threshold and every gas estimate and gas
\* price (stated where the loop is about to call it); in the loop, after
\* can_buy returned FALSE (or was not called, the balance being 0) no buy is
\* entered and no buy transaction is broadcast.
CanBuyGas == {EstimateGas(f) + g : f \in {"buy", "approve", "sell"}, g \in 0..1}
CanBuyInputs ==
    {b \in {6 * ((e + 20000) * p) + d : e \in CanBuyGas, p \in 0..MaxGasPrice, d \in {-1, 0, 1}} :
        b >= 0}

C2_CanBuyThreshold ==
    /\ lpc = "can_buy" =>
          \A b \in CanBuyInputs, e \in CanBuyGas, p \in 0..MaxGasPrice :
             can_buy(b, _calc_tx_fee(estimate_gas(e), p)) <=> (b > 6 * ((e + 20000) * p))
    /\ can.called => (can.ret <=> bnb > 6 * CanFee)
    /\ (lpc # "api" /\ (bnb <= 0 \/ (can.called /\ bnb <= 6 * CanFee)))
          => (op # "buy" /\ lastTx.kind # "buy" /\ lpc \notin {"buy", "sleep10"})

C2_AtThreshold ==
    /\ lpc = "get_tokens"
    /\ can.called /\ ~can.ret
    /\ bnb > 0 /\ bnb = 6 * CanFee

C4_SellFailsFast ==
    (op = "sell" /\ arg <= 0) =>
        /\ trace = <<>>
        /\ lastTx = NoTx /\ cycTx = 0
        /\ tpc \in {"sell_amount", "done", "idle"}
        /\ tpc \in {"done", "idle"} => result = None

C4_SellReturned ==
    /\ op = "sell" /\ arg <= 0
    /\ tpc = "done"

\* an approval is broadcast only with the allowance below the threshold, and a
\* swap of tokens goes out with no approval before it in the same call only
\* with the allowance at or above the threshold
ApprovalIffBelowThreshold ==
    /\ lastTx.kind = "approve" => lastTx.allow < max_approval_check_int
    /\ (lastTx.kind = "sell" /\ ~Has("APPROVE_BROADCAST"))
          => lastTx.allow >= max_approval_check_int

\* C5 as stated: an approval is sent iff the allowance is below the threshold,
\* and once a sell call of a wallet has gone through the approval step (the
\* approval's receipt was awaited), no later sell of that wallet sends one.
C5_NoSecondApproval ==
    /\ ApprovalIffBelowThreshold
    /\ \A w \in Wallets : ~apprAgain[w]

\* C5 amended: an approval is sent iff the allowance is below the threshold,
\* and once an approval of a wallet was mined with status 1, no later sell of
\* that wallet sends one.
C5_NoApprovalAfterSuccess ==
    /\ ApprovalIffBelowThreshold
    /\ \A w \in Wallets : ~apprAfterOk[w]

C5_SecondSellNoApproval ==
    /\ op = "sell" /\ tpc = "done" /\ result # None
    /\ apprOk[wallet]
    /\ ~Has("APPROVE_BROADCAST")
    /\ allowance[wallet] < max_approval_int

\* C6: when the token contract's balance call of the loop raises, the loop
\* does not crash: from the step that reads the token balance it goes on.
C6_TokenBalanceRevertKeepsLoopRunning ==
    [][lpc = "get_tokens" => lpc' # "crashed"]_vars

\* C7: in a wallet cycle where the native balance is at most 6 * fee (or 0, the
\* fee then not being estimated) and the token balance read is 0, nothing was
\* broadcast and nothing notified, and the loop's next step is the pause of
\* INTERVAL seconds that leads to the next account, the first after the last.
C7_IdleCycle ==
    [][(/\ lpc = "sleep"
        /\ bnb <= 0 \/ (can.called /\ bnb <= 6 * CanFee)
        /\ tokens_amount = 0)
       => (/\ cycTx = 0 /\ lastTx = NoTx
           /\ cycNotes = 0 /\ lastNote = None
           /\ op = "none"
           /\ lpc' = "get_bnb"
           /\ slept' = INTERVAL
           /\ idx' = IF idx = NumWallets THEN 1 ELSE idx + 1)]_vars

C7_IdleAtThreshold ==
    /\ lpc = "sleep"
    /\ can.called /\ bnb > 0 /\ bnb <= 6 * CanFee
    /\ tokens_amount = 0
    /\ idx = NumWallets

\* C8: a notification is sent only for an action that succeeded: the result the
\* last notification told has receipt status 1.
C8_NotifyOnlyOnSuccess ==
    lastNote # None => lastNote.status = 1

\* C9: the polling loop never terminates, provided every chain and messaging
\* call returns: the task has ended only if some such call raised.
C9_LoopNeverTerminates ==
    lpc = "crashed" => rpcRaised

Estimates == {"ESTIMATE_GAS", "APPROVE_ESTIMATE_GAS"}
Checks == {"CHECK_BALANCE", "CHECK_ALLOWANCE"}

\* the part of the order that does not concern the check: build, sign,
\* broadcast, await, report in this order after the estimate, and an approval
\* sent has its receipt awaited before the swap is built
StepOrderTail ==
    /\ Before({"ESTIMATE_GAS"}, "BUILD")
    /\ Before({"BUILD"}, "SIGN")
    /\ Before({"SIGN"}, "BROADCAST")
    /\ Before(Checks, "BROADCAST")
    /\ Before({"BROADCAST"}, "AWAIT_RECEIPT")
    /\ Before({"AWAIT_RECEIPT"}, "REPORT")
    /\ Has("APPROVE_BROADCAST") => Before({"APPROVE_AWAIT_RECEIPT"}, "BUILD")

\* C10 as stated: in every buy and sell call gas is estimated before the balance
\* or allowance check, then come build, sign, broadcast, await and report.
C10_EstimateBeforeCheck ==
    /\ Before(Estimates, "CHECK_BALANCE")
    /\ Before(Estimates, "CHECK_ALLOWANCE")
    /\ StepOrderTail

\* C10 amended: buy estimates gas before its balance check; sell checks the
\* allowance first, before any gas estimate (the approval's and the swap's);
\* then come build, sign, broadcast, await and report, an approval sent having
\* its receipt awaited before the swap is built.
C10_StepOrder ==
    /\ Before({"ESTIMATE_GAS"}, "CHECK_BALANCE")
    /\ \A e \in Estimates : Before({"CHECK_ALLOWANCE"}, e) \/ op # "sell"
    /\ op = "sell" /\ trace # <<>> => trace[1] = "CHECK_ALLOWANCE"
    /\ StepOrderTail

C10_SellWithApprovalReported ==
    /\ op = "sell" /\ tpc = "done"
    /\ Has("APPROVE_AWAIT_RECEIPT")
    /\ Has("REPORT")

====
